---- MODULE Spec2Model ----
(***************************************************************************)
(* Model of the fallback-extraction engine of ytdlp-service/main.py:       *)
(* extract_video tries a fixed list of YouTube player clients, one yt-dlp  *)
(* subprocess per client, returns the first decoded payload and otherwise  *)
(* raises one HTTP 500 built from the last recorded error.                 *)
(*                                                                         *)
(* Texts (stdout, stderr, messages) are TLA+ strings, compared character   *)
(* by character as Python compares str values.  Positions are 0-based as   *)
(* in Python.                                                              *)
(***************************************************************************)
EXTENDS Integers, Sequences, FiniteSets, TLC

(***************************************************************************)
(* Python str operations used by the handler.                              *)
(***************************************************************************)
Min(a, b) == IF a < b THEN a ELSE b

Max(a, b) == IF a < b THEN b ELSE a

\* s[a:b]
Slice(s, a, b) ==
    LET lo == Max(0, Min(a, Len(s)))
        hi == Max(0, Min(b, Len(s)))
    IN  IF hi <= lo THEN "" ELSE SubSeq(s, lo + 1, hi)

\* s[:n]
Take(s, n) == Slice(s, 0, n)

\* s[p:p+1]
CharAt(s, p) == Slice(s, p, p + 1)

\* p in s  (substring test)
Contains(s, p) ==
    \E i \in 1..(Len(s) - Len(p) + 1) : SubSeq(s, i, i + Len(p) - 1) = p

LowerChar(c) ==
    CASE c = "A" -> "a" []
         c = "B" -> "b" []
         c = "C" -> "c" []
         c = "D" -> "d" []
         c = "E" -> "e" []
         c = "F" -> "f" []
         c = "G" -> "g" []
         c = "H" -> "h" []
         c = "I" -> "i" []
         c = "J" -> "j" []
         c = "K" -> "k" []
         c = "L" -> "l" []
         c = "M" -> "m" []
         c = "N" -> "n" []
         c = "O" -> "o" []
         c = "P" -> "p" []
         c = "Q" -> "q" []
         c = "R" -> "r" []
         c = "S" -> "s" []
         c = "T" -> "t" []
         c = "U" -> "u" []
         c = "V" -> "v" []
         c = "W" -> "w" []
         c = "X" -> "x" []
         c = "Y" -> "y" []
         c = "Z" -> "z" []
         OTHER -> c

RECURSIVE Lower(_)
\* s.lower()
Lower(s) ==
    IF Len(s) = 0 THEN ""
    ELSE IF Len(s) = 1 THEN LowerChar(s)
    ELSE Lower(Slice(s, 0, Len(s) \div 2)) \o Lower(Slice(s, Len(s) \div 2, Len(s)))

RECURSIVE Repeat(_, _)
\* c * n
Repeat(c, n) ==
    IF n <= 0 THEN ""
    ELSE IF n = 1 THEN c
    ELSE Repeat(c, n \div 2) \o Repeat(c, n - (n \div 2))

(***************************************************************************)
(* json.loads, for documents without escapes, exponents, NaN or Infinity.  *)
(* A decoded value is a record whose field t is the Python type name.      *)
(***************************************************************************)
Whitespace == {" ", "\t", "\n", "\r"}

Digits == {"0", "1", "2", "3", "4", "5", "6", "7", "8", "9"}

RECURSIVE SkipWs(_, _)
SkipWs(s, p) == IF CharAt(s, p) \in Whitespace THEN SkipWs(s, p + 1) ELSE p

RECURSIVE DigitsEnd(_, _)
DigitsEnd(s, p) == IF CharAt(s, p) \in Digits THEN DigitsEnd(s, p + 1) ELSE p

RECURSIVE FindQuote(_, _)
FindQuote(s, p) ==
    IF p >= Len(s) THEN -1
    ELSE IF CharAt(s, p) = "\"" THEN p
    ELSE FindQuote(s, p + 1)

JsonOk(v, e) == [ok |-> TRUE, val |-> v, end |-> e]

JsonErr(m, p) == [ok |-> FALSE, msg |-> m, pos |-> p]

\* scanstring: begin is the position after the opening quote
ScanString(s, begin) ==
    LET q == FindQuote(s, begin)
    IN  IF q = -1 THEN JsonErr("Unterminated string starting at", begin - 1)
        ELSE JsonOk([t |-> "str", s |-> Slice(s, begin, q)], q + 1)

\* NUMBER_RE: -?(0|[1-9][0-9]*)(\.[0-9]+)?
ScanNumber(s, p) ==
    LET q == IF CharAt(s, p) = "-" THEN p + 1 ELSE p
        ie == IF CharAt(s, q) = "0" THEN q + 1
              ELSE IF CharAt(s, q) \in Digits THEN DigitsEnd(s, q)
              ELSE -1
        fe == IF ie # -1 /\ CharAt(s, ie) = "." /\ CharAt(s, ie + 1) \in Digits
              THEN DigitsEnd(s, ie + 1) ELSE ie
    IN  IF ie = -1 THEN JsonErr("Expecting value", p)
        ELSE JsonOk([t |-> IF fe = ie THEN "int" ELSE "float", lit |-> Slice(s, p, fe)], fe)

RECURSIVE DictSet(_, _, _)
\* dict insertion: a repeated key keeps its place and takes the new value
DictSet(items, k, v) ==
    IF items = <<>> THEN <<[k |-> k, v |-> v]>>
    ELSE IF Head(items).k = k THEN <<[k |-> k, v |-> v]>> \o Tail(items)
    ELSE <<Head(items)>> \o DictSet(Tail(items), k, v)

RECURSIVE ScanOnce(_, _), ScanMembers(_, _, _), ScanElements(_, _, _)
\* py_scanstring/scan_once of json.scanner
ScanOnce(s, p) ==
    LET c == CharAt(s, p)
    IN  IF c = "" THEN JsonErr("Expecting value", p)
        ELSE IF c = "\"" THEN ScanString(s, p + 1)
        ELSE IF c = "{" THEN
            LET q == SkipWs(s, p + 1)
            IN  IF CharAt(s, q) = "}" THEN JsonOk([t |-> "dict", items |-> <<>>], q + 1)
                ELSE IF CharAt(s, q) # "\""
                THEN JsonErr("Expecting property name enclosed in double quotes", q)
                ELSE ScanMembers(s, q, <<>>)
        ELSE IF c = "[" THEN
            LET q == SkipWs(s, p + 1)
            IN  IF CharAt(s, q) = "]" THEN JsonOk([t |-> "list", items |-> <<>>], q + 1)
                ELSE ScanElements(s, q, <<>>)
        ELSE IF Slice(s, p, p + 4) = "null" THEN JsonOk([t |-> "NoneType"], p + 4)
        ELSE IF Slice(s, p, p + 4) = "true" THEN JsonOk([t |-> "bool", lit |-> "true"], p + 4)
        ELSE IF Slice(s, p, p + 5) = "false" THEN JsonOk([t |-> "bool", lit |-> "false"], p + 5)
        ELSE ScanNumber(s, p)

\* JSONObject: p is the position of the opening quote of the next key
ScanMembers(s, p, items) ==
    LET key == ScanString(s, p + 1)
    IN  IF ~key.ok THEN key
        ELSE
        LET c == SkipWs(s, key.end)
        IN  IF CharAt(s, c) # ":" THEN JsonErr("Expecting ':' delimiter", c)
            ELSE
            LET val == ScanOnce(s, SkipWs(s, c + 1))
            IN  IF ~val.ok THEN val
                ELSE
                LET e == SkipWs(s, val.end)
                    done == DictSet(items, key.val.s, val.val)
                IN  IF CharAt(s, e) = "}" THEN JsonOk([t |-> "dict", items |-> done], e + 1)
                    ELSE IF CharAt(s, e) # "," THEN JsonErr("Expecting ',' delimiter", e)
                    ELSE
                    LET n == SkipWs(s, e + 1)
                    IN  IF CharAt(s, n) # "\""
                        THEN JsonErr("Expecting property name enclosed in double quotes", n)
                        ELSE ScanMembers(s, n, done)

\* JSONArray: p is the position of the next element
ScanElements(s, p, items) ==
    LET val == ScanOnce(s, p)
    IN  IF ~val.ok THEN val
        ELSE
        LET e == SkipWs(s, val.end)
            done == Append(items, val.val)
        IN  IF CharAt(s, e) = "]" THEN JsonOk([t |-> "list", items |-> done], e + 1)
            ELSE IF CharAt(s, e) # "," THEN JsonErr("Expecting ',' delimiter", e)
            ELSE ScanElements(s, SkipWs(s, e + 1), done)

\* json.loads(s): JSONDecoder.decode
JsonLoads(s) ==
    LET r == ScanOnce(s, SkipWs(s, 0))
    IN  IF ~r.ok THEN r
        ELSE LET e == SkipWs(s, r.end)
             IN  IF e # Len(s) THEN JsonErr("Extra data", e) ELSE r

RECURSIVE CountNewlines(_, _)
\* doc.count('\n', 0, pos)
CountNewlines(s, pos) ==
    IF pos <= 0 THEN 0
    ELSE CountNewlines(s, pos - 1) + (IF CharAt(s, pos - 1) = "\n" THEN 1 ELSE 0)

RECURSIVE RFindNewline(_, _)
\* doc.rfind('\n', 0, pos)
RFindNewline(s, pos) ==
    IF pos <= 0 THEN -1
    ELSE IF CharAt(s, pos - 1) = "\n" THEN pos - 1
    ELSE RFindNewline(s, pos - 1)

\* str(e) of the JSONDecodeError raised for document s
JsonErrorStr(s, r) ==
    r.msg \o ": line " \o ToString(CountNewlines(s, r.pos) + 1)
          \o " column " \o ToString(r.pos - RFindNewline(s, r.pos))
          \o " (char " \o ToString(r.pos) \o ")"

(***************************************************************************)
(* extract_video: the catalog, the invocation and the classification.      *)
(***************************************************************************)
\* Optional values: <<>> is None, <<v>> is v
None == <<>>

Some(v) == <<v>>

\* a catalog that tries the mobile clients first
player_configs_mobile_first ==
    << [client_type |-> "ios",     skip_type |-> None,            additional_args |-> <<>>],
       [client_type |-> "android", skip_type |-> None,            additional_args |-> <<>>],
       [client_type |-> "mweb",    skip_type |-> None,            additional_args |-> <<>>],
       [client_type |-> "web",     skip_type |-> Some("webpage"), additional_args |-> <<>>],
       [client_type |-> "web",     skip_type |-> None,            additional_args |-> <<>>] >>

\* the list player_configs of extract_video
player_configs ==
    << [client_type |-> "web",     skip_type |-> Some("webpage"), additional_args |-> <<>>],
       [client_type |-> "web",     skip_type |-> None,            additional_args |-> <<>>],
       [client_type |-> "ios",     skip_type |-> None,            additional_args |-> <<>>],
       [client_type |-> "android", skip_type |-> None,            additional_args |-> <<>>],
       [client_type |-> "mweb",    skip_type |-> None,            additional_args |-> <<>>] >>

NumConfigs == Len(player_configs)

config_name(c) ==
    c.client_type \o (IF c.skip_type # None THEN " (skip: " \o c.skip_type[1] \o ")" ELSE "")

sys_executable == "/usr/local/bin/python"

UserAgent ==
    "Mozilla/5.0 (Windows NT 10.0; Win64; x64) AppleWebKit/537.36 (KHTML, like Gecko) Chrome/120.0.0.0 Safari/537.36"

\* a builder that gives the compatibility hints and the referer to the web
\* clients only
BuildArgsPerClient(c, url, use, file) ==
    << sys_executable, "-m", "yt_dlp", "--dump-json", "--no-warnings", "--no-playlist",
       "--user-agent", UserAgent,
       "--extractor-args", "youtube:player_client=" \o c.client_type >>
    \o (IF c.skip_type # None
        THEN << "--extractor-args", "youtube:player_skip=" \o c.skip_type[1] >>
        ELSE <<>>)
    \o (IF c.client_type = "web"
        THEN << "--extractor-args", "youtube:player_params=8AEB",
                "--extractor-args", "youtube:include_live_chat=false",
                "--extractor-args", "youtube:skip=dash,translated_subs",
                "--add-header", "Referer:https://www.youtube.com/" >>
        ELSE <<>>)
    \o c.additional_args
    \o (IF use THEN << "--cookies", file[1] >> ELSE <<>>)
    \o << url >>

\* the args list handed to subprocess.run for one strategy
BuildArgs(c, url, use, file) ==
    << sys_executable, "-m", "yt_dlp", "--dump-json", "--no-warnings", "--no-playlist",
       "--user-agent", UserAgent,
       "--extractor-args", "youtube:player_client=" \o c.client_type >>
    \o (IF c.skip_type # None
        THEN << "--extractor-args", "youtube:player_skip=" \o c.skip_type[1] >>
        ELSE <<>>)
    \o << "--extractor-args", "youtube:player_params=8AEB",
          "--extractor-args", "youtube:include_live_chat=false",
          "--extractor-args", "youtube:skip=dash,translated_subs" >>
    \o << "--add-header", "Referer:https://www.youtube.com/" >>
    \o c.additional_args
    \o (IF use THEN << "--cookies", file[1] >> ELSE <<>>)
    \o << url >>

\* a handler that trusts the environment variable without looking for the file
UseCookiesIfSet(file, exists) == file # None /\ file[1] # ""

\* cookies_file and os.path.exists(cookies_file), as a truth value
UseCookies(file, exists) == file # None /\ file[1] # "" /\ exists

RunTimeout == 60

MsgLimit == 200

ErrLimit == 500

\* a handler that looks at both streams together
ErrorMsgCombined(o) ==
    IF o.stderr \o o.stdout # "" THEN o.stderr \o o.stdout ELSE "Unknown error"

\* result.stderr or result.stdout or "Unknown error"
ErrorMsg(o) ==
    IF o.stderr # "" THEN o.stderr
    ELSE IF o.stdout # "" THEN o.stdout
    ELSE "Unknown error"

\* a handler that ignores letter case
IsBotDetectionAnyCase(error_msg) ==
    Contains(Lower(error_msg), "sign in to confirm") \/ Contains(Lower(error_msg), "not a bot")

IsBotDetection(error_msg) ==
    Contains(error_msg, "Sign in to confirm") \/ Contains(error_msg, "not a bot")

IsUnsupportedContent(error_msg) ==
    Contains(error_msg, "not available on this app")
        \/ Contains(error_msg, "Watch on the latest version")

Failed(text, cat) == [returned |-> FALSE, last_error |-> text, category |-> cat]

Returned(data) == [returned |-> TRUE, data |-> data]

\* the if/elif/else over error_msg of a client that exited non-zero
ClassifyFailure(error_msg, name) ==
    IF IsBotDetection(error_msg)
    THEN Failed("YouTube bot detection (tried " \o name \o ")", "bot-detection")
    ELSE IF IsUnsupportedContent(error_msg)
    THEN Failed("Content not available for " \o name \o ": " \o Take(error_msg, MsgLimit),
                "unsupported-content")
    ELSE Failed(Take(error_msg, ErrLimit), "other")

\* data.get('title', 'Unknown') raises AttributeError unless data is a dict
AttributeErrorStr(data) == "'" \o data.t \o "' object has no attribute 'get'"

\* a handler for which exit status 0 alone means success
AfterLoadsLenient(doc, r) ==
    IF ~r.ok THEN Returned([t |-> "str", s |-> doc])
    ELSE IF r.val.t # "dict" THEN Failed(AttributeErrorStr(r.val), "other")
    ELSE Returned(r.val)

\* what follows json.loads(result.stdout) = r: the except clause, the log line
\* raising AttributeError, or return JSONResponse
AfterLoads(doc, r) ==
    IF ~r.ok
    THEN Failed("Failed to parse yt-dlp output: " \o JsonErrorStr(doc, r), "parse-error")
    ELSE IF r.val.t # "dict"
    THEN Failed(AttributeErrorStr(r.val), "other")
    ELSE Returned(r.val)

\* the branch returncode == 0
HandleZeroExit(o) == AfterLoads(o.stdout, JsonLoads(o.stdout))

\* subprocess.run without a timeout
NeverTimedOut(o) == FALSE

\* subprocess.run(..., timeout=60) raises TimeoutExpired
TimedOut(o) == o.kind = "process" /\ o.seconds > RunTimeout

\* subprocess.run and the rest of the try block, with its except clauses
HandleResult(o, name) ==
    IF o.kind = "error" THEN Failed(o.msg, "other")
    ELSE IF TimedOut(o) THEN Failed("Video extraction timed out", "timeout")
    ELSE IF o.returncode = 0 THEN HandleZeroExit(o)
    ELSE ClassifyFailure(ErrorMsg(o), name)

\* a handler that looks for "Sign in" only
IsSignInPattern(error_detail) == Contains(error_detail, "Sign in")

IsBotPattern(error_detail) ==
    Contains(Lower(error_detail), "bot") \/ Contains(error_detail, "Sign in")

\* the two symbols of the source text that are not ASCII are written (!) and ->
RemediationMessage ==
    "YouTube bot detection: All client types were blocked.\n\n"
    \o "(!) COOKIES ARE REQUIRED: YouTube now requires browser cookies for most video extractions.\n\n"
    \o "To fix this:\n"
    \o "1. Install 'Get cookies.txt LOCALLY' extension in Chrome/Edge\n"
    \o "2. Visit youtube.com and sign in\n"
    \o "3. Click the extension -> Export -> Save as cookies.txt\n"
    \o "4. Upload cookies.txt to your deployment platform\n"
    \o "5. Set YTDLP_COOKIES_FILE environment variable to the file path\n\n"
    \o "See ytdlp-service/COOKIES_SETUP.md for detailed instructions."

\* last_error or "All YouTube client types failed"
DefaultDetail(last) ==
    IF last = None \/ last[1] = "" THEN "All YouTube client types failed" ELSE last[1]

\* a handler that appends the guidance to the error it has
ErrorDetailAugmented(last) ==
    IF IsBotPattern(DefaultDetail(last))
    THEN DefaultDetail(last) \o "\n\n" \o RemediationMessage
    ELSE DefaultDetail(last)

\* error_detail after the "helpful error message" step
ErrorDetail(last) ==
    IF IsBotPattern(DefaultDetail(last)) THEN RemediationMessage ELSE DefaultDetail(last)

\* the HTTPException raised when all clients failed
FailureResponse(last) ==
    [status |-> 500, detail |-> "yt-dlp extraction failed: " \o ErrorDetail(last)]

\* JSONResponse(content=data)
SuccessResponse(data) == [status |-> 200, content |-> data]

\* str.strip()
StripChars == {" ", "\t", "\n", "\r", "\f"}

Strip(s) ==
    LET keep == { i \in 1..Len(s) : SubSeq(s, i, i) \notin StripChars }
    IN  IF keep = {} THEN ""
        ELSE SubSeq(s, CHOOSE i \in keep : \A j \in keep : i <= j,
                       CHOOSE i \in keep : \A j \in keep : j <= i)

\* subprocess.run(..., timeout=5) in health_check
ProbeTimeout == 5

\* sys.version
PythonVersion == "3.11.9 (main, Apr  2 2024, 08:25:04) [GCC 12.2.0]"

\* the version subprocess ended by itself with exit status 0
ProbeSucceeded(o) == o.kind = "process" /\ o.seconds <= ProbeTimeout /\ o.returncode = 0

\* a probe without the except clause: the failure reaches the caller
HealthResponseUnguarded(o) ==
    IF o.kind = "error" \/ o.seconds > ProbeTimeout
    THEN [status |-> "error", ytdlp_available |-> FALSE, ytdlp_version |-> "Not available",
          python_version |-> PythonVersion]
    ELSE [status |-> "ok", ytdlp_available |-> o.returncode = 0,
          ytdlp_version |-> IF o.returncode = 0 THEN Strip(o.stdout) ELSE "Not available",
          python_version |-> PythonVersion]

\* what health_check returns when the version subprocess behaves as o
HealthResponse(o) ==
    [status |-> "ok",
     ytdlp_available |-> ProbeSucceeded(o),
     ytdlp_version |-> IF ProbeSucceeded(o) THEN Strip(o.stdout) ELSE "Not available",
     python_version |-> PythonVersion]

(***************************************************************************)
(* What the environment can do: the behaviours of one yt-dlp subprocess,   *)
(* the URLs submitted, the cookies setting.                                *)
(***************************************************************************)
\* a subprocess that was started: how long it runs and what it leaves
Run(sec, rc, out, err) ==
    [kind |-> "process", seconds |-> sec, returncode |-> rc, stdout |-> out, stderr |-> err,
     msg |-> ""]

\* subprocess.run raised something other than TimeoutExpired; m is str(e)
Raised(m) ==
    [kind |-> "error", seconds |-> 0, returncode |-> 0, stdout |-> "", stderr |-> "", msg |-> m]

LongLen == 510

QuickSeconds == 3

SlowSeconds == 75

T_SignIn ==
    "ERROR: [youtube] abc: Sign in to confirm your age. This video may be inappropriate for some users."

T_SignInLower == "error: [youtube] abc: sign in to confirm your age."

T_NotABot == "ERROR: [youtube] abc: Please confirm you are not a bot"

T_NotABotUpper == "ERROR: [youtube] abc: PLEASE CONFIRM YOU ARE NOT A BOT"

T_App == "ERROR: [youtube] abc: The following content is not available on this app."

T_Watch == "ERROR: [youtube] abc: Watch on the latest version of YouTube."

T_WatchLower == "ERROR: [youtube] abc: watch on the latest version of YouTube."

T_Unavailable == "ERROR: [youtube] abc: Video unavailable"

T_Robots == "ERROR: [generic] Unable to download webpage: disallowed by robots.txt"

T_Warning == "WARNING: [youtube] abc: Falling back to generic n function search"

T_Long == "ERROR: " \o Repeat("x", LongLen) \o " robots.txt"

T_LongApp == T_App \o Repeat(" y", LongLen \div 4)

J_Video == "{\"id\": \"abc\", \"title\": \"A video\", \"duration\": 12.5}\n"

J_NoTitle == "{\"id\": \"abc\"}"

J_List == "[{\"id\": \"abc\"}]\n"

J_Null == "null"

J_TwoDocs == "{\"id\": \"abc\"}\n{\"id\": \"def\"}\n"

ErrorTexts ==
    { T_SignIn, T_SignInLower, T_NotABot, T_NotABotUpper, T_App, T_Watch, T_WatchLower,
      T_Unavailable, T_Robots, T_Long, T_LongApp, "" }

FailedRuns ==
    { Run(QuickSeconds, 1, "", t) : t \in ErrorTexts }
    \cup { Run(QuickSeconds, 1, t, e) : t \in {T_SignIn, T_App}, e \in {"", T_Warning} }
    \cup { Run(QuickSeconds, 1, J_Video, "") }

ZeroExitRuns ==
    { Run(QuickSeconds, 0, t, "") : t \in {J_Video, J_NoTitle, J_List, J_Null, J_TwoDocs, "", T_SignIn} }
    \cup { Run(QuickSeconds, 0, J_Video, T_NotABot) }

SlowRuns == { Run(SlowSeconds, 0, J_Video, ""), Run(SlowSeconds, 1, "", T_SignIn) }

ProcessRuns == FailedRuns \cup ZeroExitRuns \cup SlowRuns

SpawnErrors == { Raised("[Errno 12] Cannot allocate memory"), Raised("") }

Outcomes == ProcessRuns \cup SpawnErrors

(***************************************************************************)
(* The classification and the final message are pure functions of the      *)
(* text they are given.  They are tabulated over the outcomes above, so    *)
(* that each is computed once and the steps below look the result up.      *)
(***************************************************************************)
ConfigNames == { config_name(player_configs[i]) : i \in 1..NumConfigs }

\* HandleResult(o, name) for every outcome and configuration
Verdicts == [o \in Outcomes |-> [n \in ConfigNames |-> HandleResult(o, n)]]

\* every text that last_error can hold
LastErrors ==
    { Verdicts[o][n].last_error :
          o \in { x \in Outcomes : \A m \in ConfigNames : ~Verdicts[x][m].returned },
          n \in ConfigNames }

\* FailureResponse(Some(t)) for every such text
FailureResponses == [t \in LastErrors |-> FailureResponse(Some(t))]

ProbeSeconds == 6

\* the behaviours of the version subprocess
ProbeOutcomes ==
    { Run(QuickSeconds, 0, "2024.12.13\n", ""),
      Run(QuickSeconds, 1, "", "/usr/local/bin/python: No module named yt_dlp\n"),
      Run(ProbeSeconds, 0, "2024.12.13\n", ""),
      Raised("[Errno 12] Cannot allocate memory") }

\* what the five subprocesses of one request will do, fixed in advance
ScriptBlocked ==
    << Run(QuickSeconds, 1, "", T_Unavailable),
       Run(SlowSeconds, 0, J_Video, ""),
       Run(QuickSeconds, 0, J_TwoDocs, ""),
       Raised("[Errno 12] Cannot allocate memory"),
       Run(QuickSeconds, 1, "", T_SignIn) >>

ScriptShorts ==
    << Run(QuickSeconds, 1, "", T_Robots),
       Run(QuickSeconds, 0, J_List, ""),
       Run(QuickSeconds, 1, "", T_App),
       Run(QuickSeconds, 1, "", T_App),
       Run(QuickSeconds, 0, J_Video, "") >>

ScriptRobots ==
    << Run(QuickSeconds, 1, "", T_NotABot),
       Run(QuickSeconds, 1, "", T_Watch),
       Run(QuickSeconds, 1, "", T_Long),
       Run(SlowSeconds, 1, "", T_SignIn),
       Run(QuickSeconds, 1, "", T_Robots) >>

Scripts == { ScriptBlocked, ScriptShorts, ScriptRobots }

Urls == { "https://www.youtube.com/watch?v=abc", "https://www.youtube.com/shorts/abc" }

CookiesPath == "/app/cookies.txt"

\* os.getenv("YTDLP_COOKIES_FILE")
CookiesEnv == { None, Some(""), Some(CookiesPath) }

Requests == {1, 2}

(***************************************************************************)
(* State.  A request is blocked only inside subprocess.run, so a step of   *)
(* a request runs from one subprocess.run to the next (or to its return).  *)
(***************************************************************************)
VARIABLES
    clients,       \* the requests the HTTP layer submits
    env_cookies,   \* the value of YTDLP_COOKIES_FILE
    cookies_exist, \* os.path.exists(CookiesPath)
    pc,            \* "idle", "running" (inside subprocess.run), "succeeded", "exhausted"
    video_url,
    cookies_file,
    use_cookies,
    idx,           \* position of the for loop in player_configs, from 0
    args,          \* the args of the subprocess that is running
    last_error,
    response,      \* None, or what the handler returned or raised
    category,      \* which branch set last_error
    outcome,       \* None, or the behaviour of the subprocess that finished last
    invocations,   \* calls of subprocess.run
    diagnostics,   \* assignments to last_error after its initialisation
    probe,         \* None, or the behaviour of the last version subprocess
    health,        \* None, or what health_check returned last
    script         \* None, or what the subprocesses of the request will do

vars == << clients, env_cookies, cookies_exist, pc, video_url, cookies_file, use_cookies,
           idx, args, last_error, response, category, outcome, invocations, diagnostics,
           probe, health, script >>

requestVars == << pc, video_url, cookies_file, use_cookies, idx, args, last_error, response,
                  category, outcome, invocations, diagnostics >>

healthVars == << probe, health >>

envVars == << clients, env_cookies, cookies_exist, script >>

InitRequests ==
    /\ pc = [r \in Requests |-> "idle"]
    /\ video_url = [r \in Requests |-> ""]
    /\ cookies_file = [r \in Requests |-> None]
    /\ use_cookies = [r \in Requests |-> FALSE]
    /\ idx = [r \in Requests |-> 0]
    /\ args = [r \in Requests |-> <<>>]
    /\ last_error = [r \in Requests |-> None]
    /\ response = [r \in Requests |-> None]
    /\ category = [r \in Requests |-> "none"]
    /\ outcome = [r \in Requests |-> None]
    /\ invocations = [r \in Requests |-> 0]
    /\ diagnostics = [r \in Requests |-> 0]

Init ==
    /\ clients = {1}
    /\ env_cookies \in CookiesEnv
    /\ cookies_exist \in BOOLEAN
    /\ probe = None
    /\ health = None
    /\ script = [r \in Requests |-> None]
    /\ InitRequests

\* two requests in progress at once, each with the behaviour of its
\* subprocesses drawn in advance
ScriptedInit ==
    /\ clients = Requests
    /\ env_cookies = Some(CookiesPath)
    /\ cookies_exist \in BOOLEAN
    /\ probe = None
    /\ health = None
    /\ script \in [Requests -> { Some(sc) : sc \in Scripts }]
    /\ InitRequests

\* a handler that starts one subprocess per configuration at once
SubmitAll(r) ==
    /\ r \in clients
    /\ pc[r] = "idle"
    /\ \E url \in Urls :
        LET use == UseCookies(env_cookies, cookies_exist)
        IN  /\ video_url' = [video_url EXCEPT ![r] = url]
            /\ cookies_file' = [cookies_file EXCEPT ![r] = env_cookies]
            /\ use_cookies' = [use_cookies EXCEPT ![r] = use]
            /\ args' = [args EXCEPT ![r] = BuildArgs(player_configs[1], url, use, env_cookies)]
    /\ last_error' = [last_error EXCEPT ![r] = None]
    /\ idx' = [idx EXCEPT ![r] = 0]
    /\ invocations' = [invocations EXCEPT ![r] = NumConfigs]
    /\ pc' = [pc EXCEPT ![r] = "running"]
    /\ UNCHANGED << envVars, healthVars, response, category, outcome, diagnostics >>

\* the handler up to the first subprocess.run
Submit(r) ==
    /\ r \in clients
    /\ pc[r] = "idle"
    /\ \E url \in Urls :
        LET use == UseCookies(env_cookies, cookies_exist)
        IN  /\ video_url' = [video_url EXCEPT ![r] = url]
            /\ cookies_file' = [cookies_file EXCEPT ![r] = env_cookies]
            /\ use_cookies' = [use_cookies EXCEPT ![r] = use]
            /\ args' = [args EXCEPT ![r] = BuildArgs(player_configs[1], url, use, env_cookies)]
    /\ last_error' = [last_error EXCEPT ![r] = None]
    /\ idx' = [idx EXCEPT ![r] = 0]
    /\ invocations' = [invocations EXCEPT ![r] = 1]
    /\ pc' = [pc EXCEPT ![r] = "running"]
    /\ UNCHANGED << envVars, healthVars, response, category, outcome, diagnostics >>

\* a handler that records the payload but goes on with the loop
ReturnLater(r, data) ==
    /\ response' = [response EXCEPT ![r] = Some(SuccessResponse(data))]
    /\ idx' = [idx EXCEPT ![r] = IF @ + 1 < NumConfigs THEN @ + 1 ELSE @]
    /\ IF idx[r] + 1 < NumConfigs
       THEN /\ args' = [args EXCEPT ![r] =
                   BuildArgs(player_configs[idx[r] + 2], video_url[r], use_cookies[r],
                             cookies_file[r])]
            /\ invocations' = [invocations EXCEPT ![r] = @ + 1]
            /\ UNCHANGED pc
       ELSE /\ pc' = [pc EXCEPT ![r] = "succeeded"]
            /\ UNCHANGED << args, invocations >>
    /\ UNCHANGED << last_error, category, diagnostics >>

\* return JSONResponse(content=data)
Return(r, data) ==
    /\ pc' = [pc EXCEPT ![r] = "succeeded"]
    /\ response' = [response EXCEPT ![r] = Some(SuccessResponse(data))]
    /\ UNCHANGED << idx, args, last_error, category, invocations, diagnostics >>

\* a handler that keeps the first error it saw
KeepFirstError(old, text) == IF old = None THEN Some(text) ELSE old

\* last_error = text
NewLastError(old, text) == Some(text)

\* a handler that looks for the file again at every attempt
DecisionRechecked(r) == UseCookies(cookies_file[r], cookies_exist)

\* use_cookies as read at line 135: the value assigned at line 91
Decision(r) == use_cookies[r]

\* a handler that keeps last_error in a variable of the module, shared by
\* all the requests
AdvanceShared(r, text, cat, more) ==
    /\ last_error' = [q \in Requests |-> NewLastError(last_error[r], text)]
    /\ category' = [category EXCEPT ![r] = cat]
    /\ diagnostics' = [diagnostics EXCEPT ![r] = @ + 1]
    /\ idx' = [idx EXCEPT ![r] = @ + 1]
    /\ IF more
       THEN /\ args' = [args EXCEPT ![r] =
                   BuildArgs(player_configs[idx[r] + 2], video_url[r], Decision(r),
                             cookies_file[r])]
            /\ invocations' = [invocations EXCEPT ![r] = @ + 1]
            /\ UNCHANGED << pc, response >>
       ELSE /\ pc' = [pc EXCEPT ![r] = "exhausted"]
            /\ response' = [response EXCEPT ![r] =
                   Some(FailureResponses[NewLastError(last_error[r], text)[1]])]
            /\ UNCHANGED << args, invocations >>

\* last_error = text, then the next subprocess.run if the loop has one more
\* configuration, else the raise after the loop
Advance(r, text, cat, more) ==
    /\ last_error' = [last_error EXCEPT ![r] = NewLastError(@, text)]
    /\ category' = [category EXCEPT ![r] = cat]
    /\ diagnostics' = [diagnostics EXCEPT ![r] = @ + 1]
    /\ idx' = [idx EXCEPT ![r] = @ + 1]
    /\ IF more
       THEN /\ args' = [args EXCEPT ![r] =
                   BuildArgs(player_configs[idx[r] + 2], video_url[r], Decision(r),
                             cookies_file[r])]
            /\ invocations' = [invocations EXCEPT ![r] = @ + 1]
            /\ UNCHANGED << pc, response >>
       ELSE /\ pc' = [pc EXCEPT ![r] = "exhausted"]
            /\ response' = [response EXCEPT ![r] =
                   Some(FailureResponses[NewLastError(last_error[r], text)[1]])]
            /\ UNCHANGED << args, invocations >>

\* a handler that gives up at once when YouTube asks for a sign-in
ContinueUnlessBlocked(r, text, cat) ==
    Advance(r, text, cat, idx[r] + 1 < NumConfigs /\ cat # "bot-detection")

\* last_error = ...; continue
Continue(r, text, cat) == Advance(r, text, cat, idx[r] + 1 < NumConfigs)

\* a handler that tries the last client again for as long as it fails
DispatchRetrying(r, res) ==
    IF res.returned
    THEN Return(r, res.data)
    ELSE IF idx[r] + 1 < NumConfigs
    THEN Continue(r, res.last_error, res.category)
    ELSE /\ last_error' = [last_error EXCEPT ![r] = Some(res.last_error)]
         /\ category' = [category EXCEPT ![r] = res.category]
         /\ invocations' = [invocations EXCEPT ![r] = @ + 1]
         /\ diagnostics' = [diagnostics EXCEPT ![r] = @ + 1]
         /\ UNCHANGED << pc, idx, args, response >>

\* the verdict on an attempt either ends the handler or moves it on
Dispatch(r, res) ==
    IF res.returned
    THEN Return(r, res.data)
    ELSE Continue(r, res.last_error, res.category)

\* a handler whose diagnostics depend on whether the cookies file is there
\* at the moment of the failure
CompleteTimeSensitive(r, o) ==
    /\ pc[r] = "running"
    /\ script[r] # None => o = script[r][1][idx[r] + 1]
    /\ outcome' = [outcome EXCEPT ![r] = Some(o)]
    /\ Dispatch(r, Verdicts[o][config_name(player_configs[IF cookies_exist
                                                            THEN idx[r] + 1 ELSE 1])])
    /\ UNCHANGED << envVars, healthVars, video_url, cookies_file, use_cookies >>

\* subprocess.run comes back with behaviour o: the rest of the loop body
Complete(r, o) ==
    /\ pc[r] = "running"
    /\ script[r] # None => o = script[r][1][idx[r] + 1]
    /\ outcome' = [outcome EXCEPT ![r] = Some(o)]
    /\ Dispatch(r, Verdicts[o][config_name(player_configs[idx[r] + 1])])
    /\ UNCHANGED << envVars, healthVars, video_url, cookies_file, use_cookies >>

\* the subprocess of r ends, is killed at the timeout, or could not be started
AttemptEnds(r) == \E o \in Outcomes : Complete(r, o)

\* the cookies file is created or deleted by the deployment
CookiesChange ==
    /\ cookies_exist' = ~cookies_exist
    /\ UNCHANGED << clients, env_cookies, script, healthVars, requestVars >>

\* health_check, from the request to its response
HealthCheck ==
    /\ \E o \in ProbeOutcomes :
          /\ probe' = Some(o)
          /\ health' = Some(HealthResponse(o))
    /\ UNCHANGED << envVars, requestVars >>

Next ==
    \/ \E r \in Requests : Submit(r)
    \/ \E r \in Requests : AttemptEnds(r)
    \/ CookiesChange
    \/ HealthCheck

Spec == Init /\ [][Next]_vars

ScriptedSpec == ScriptedInit /\ [][Next]_vars

\* every subprocess.run returns or raises: the child ends or is killed at the timeout
FairSpec == Spec /\ \A r \in Requests : WF_vars(AttemptEnds(r))

TypeOK ==
    /\ pc \in [Requests -> {"idle", "running", "succeeded", "exhausted"}]
    /\ idx \in [Requests -> 0..NumConfigs]
    /\ invocations \in [Requests -> 0..NumConfigs]
    /\ \A r \in Requests : Len(last_error[r]) <= 1 /\ Len(response[r]) <= 1

(***************************************************************************)
(* Properties.                                                             *)
(***************************************************************************)
Trying(r, i) == pc[r] = "running" /\ idx[r] = i

Succeeded(r) == pc[r] = "succeeded"

Exhausted(r) == pc[r] = "exhausted"

\* the step in which the running subprocess of r comes back
Completes(r) == pc[r] = "running" /\ (pc'[r] # "running" \/ idx'[r] # idx[r])

\* the behaviour of the subprocess that came back in this step
Finished(r) == outcome'[r][1]

\* how the handler classifies what came back in this step
Verdict(r) == HandleResult(Finished(r), config_name(player_configs[idx[r] + 1]))

\* C1: first success wins.  When the attempt at index k is classified
\* SUCCESS the request succeeds at once with k+1 invocations made and the
\* decoded stdout of that attempt as its payload, whatever was recorded
\* before; a request succeeds in no other way, and once it has succeeded
\* it invokes nothing more.
C1_FirstSuccessWins ==
    [][\A r \in Requests :
        /\ (Completes(r) /\ Verdict(r).returned) =>
              /\ pc'[r] = "succeeded"
              /\ idx'[r] = idx[r]
              /\ invocations'[r] = idx[r] + 1
              /\ response'[r] =
                    Some([status |-> 200, content |-> JsonLoads(Finished(r).stdout).val])
        /\ (pc[r] # "succeeded" /\ pc'[r] = "succeeded") =>
              Completes(r) /\ Verdict(r).returned
        /\ pc[r] = "succeeded" =>
              /\ pc'[r] = "succeeded"
              /\ invocations'[r] = invocations[r]
              /\ idx'[r] = idx[r]
              /\ response'[r] = response[r]
      ]_vars

\* android fails with "not available on this app", mweb then succeeds
C1_Witness ==
    \E r \in Requests :
        /\ Succeeded(r)
        /\ idx[r] = 4
        /\ invocations[r] = 5
        /\ category[r] = "unsupported-content"
        /\ response[r][1].status = 200

\* C2: total exhaustion.  When every strategy has failed, exactly
\* NumConfigs invocations were made and the text of the failure response
\* is determined by the diagnostic of the last attempt alone.
C2_TotalExhaustion ==
    \A r \in Requests :
        Exhausted(r) =>
            /\ invocations[r] = NumConfigs
            /\ diagnostics[r] = NumConfigs
            /\ response[r] =
                  Some(FailureResponse(Some(
                      HandleResult(outcome[r][1],
                                   config_name(player_configs[NumConfigs])).last_error)))

\* all five fail, the last one by a timeout
C2_Witness ==
    \E r \in Requests :
        /\ Exhausted(r)
        /\ invocations[r] = 5
        /\ category[r] = "timeout"
        /\ response[r][1].status = 500

\* the subprocess ended by itself with exit status 0
ZeroExit(o) == o.kind = "process" /\ o.seconds <= RunTimeout /\ o.returncode = 0

\* the subprocess ended by itself with another exit status
NonZeroExit(o) == o.kind = "process" /\ o.seconds <= RunTimeout /\ o.returncode # 0

\* the subprocess was still running when the timeout expired
Overran(o) == o.kind = "process" /\ o.seconds > RunTimeout

\* the last attempt of r failed, so category[r] is the category of outcome[r]
LastFailed(r) == outcome[r] # None /\ pc[r] \in {"running", "exhausted"}

HasBotPhrase(t) == Contains(t, "Sign in to confirm") \/ Contains(t, "not a bot")

HasUnsupportedPhrase(t) ==
    Contains(t, "not available on this app") \/ Contains(t, "Watch on the latest version")

HasBotPhraseAnyCase(t) ==
    Contains(Lower(t), "sign in to confirm") \/ Contains(Lower(t), "not a bot")

HasUnsupportedPhraseAnyCase(t) ==
    Contains(Lower(t), "not available on this app")
        \/ Contains(Lower(t), "watch on the latest version")

\* the failed attempt moved the request on by one strategy, or exhausted it
MovedOn(r) ==
    /\ idx'[r] = idx[r] + 1
    /\ IF idx[r] < NumConfigs - 1
       THEN pc'[r] = "running" /\ invocations'[r] = invocations[r] + 1
       ELSE pc'[r] = "exhausted" /\ invocations'[r] = invocations[r]

\* C3 (as claimed): every attempt that exits 0 with a stdout that decodes as
\* JSON, of whatever JSON type, makes the request succeed with the decoded
\* value as its payload, and records no diagnostic.
C3_DecodableIsSuccess ==
    [][\A r \in Requests :
        (Completes(r) /\ ZeroExit(Finished(r)) /\ JsonLoads(Finished(r).stdout).ok) =>
            /\ pc'[r] = "succeeded"
            /\ response'[r] =
                  Some([status |-> 200, content |-> JsonLoads(Finished(r).stdout).val])
            /\ last_error'[r] = last_error[r]
            /\ diagnostics'[r] = diagnostics[r]
      ]_vars

\* C4 (as claimed): the phrases are matched in any letter case.
C4_CaseInsensitive ==
    \A r \in Requests :
        (LastFailed(r) /\ NonZeroExit(outcome[r][1])) =>
            LET msg == ErrorMsg(outcome[r][1])
            IN  /\ HasBotPhraseAnyCase(msg) => category[r] = "bot-detection"
                /\ (~HasBotPhraseAnyCase(msg) /\ HasUnsupportedPhraseAnyCase(msg)) =>
                       category[r] = "unsupported-content"

\* C4 (amended): the phrases are matched in the letter case they are written
\* in.  A failed attempt is bot-detection exactly when its error text
\* contains "Sign in to confirm" or "not a bot", and unsupported-content
\* exactly when it is not bot-detection and contains "not available on this
\* app" or "Watch on the latest version"; the same words in another letter
\* case match nothing.
C4_CaseSensitive ==
    \A r \in Requests :
        (LastFailed(r) /\ NonZeroExit(outcome[r][1])) =>
            LET msg == ErrorMsg(outcome[r][1])
            IN  /\ category[r] = "bot-detection" <=> HasBotPhrase(msg)
                /\ category[r] = "unsupported-content" <=>
                       (~HasBotPhrase(msg) /\ HasUnsupportedPhrase(msg))
                /\ category[r] \in {"bot-detection", "unsupported-content", "other"}

\* an attempt whose stderr has the sign-in phrase in lower case only
C4_Witness ==
    \E r \in Requests :
        /\ LastFailed(r) /\ NonZeroExit(outcome[r][1])
        /\ HasBotPhraseAnyCase(outcome[r][1].stderr)
        /\ ~HasBotPhrase(outcome[r][1].stderr)
        /\ category[r] = "other"

\* C5 (as claimed): a phrase in either stream is recognised, whatever the
\* other stream holds.
C5_CombinedOutput ==
    \A r \in Requests :
        (LastFailed(r) /\ NonZeroExit(outcome[r][1])) =>
            LET o == outcome[r][1]
            IN  /\ (HasBotPhrase(o.stderr) \/ HasBotPhrase(o.stdout)) =>
                       category[r] = "bot-detection"
                /\ (/\ ~HasBotPhrase(o.stderr) /\ ~HasBotPhrase(o.stdout)
                    /\ (HasUnsupportedPhrase(o.stderr) \/ HasUnsupportedPhrase(o.stdout))) =>
                       category[r] = "unsupported-content"

\* C5 (amended): stdout is looked at only when stderr is empty.  A phrase
\* in stderr is recognised whatever stdout holds; a phrase in stdout is
\* recognised when stderr is empty; when stderr is not empty and has no
\* phrase the failure is of category other, whatever stdout holds.
C5_StderrFirst ==
    \A r \in Requests :
        (LastFailed(r) /\ NonZeroExit(outcome[r][1])) =>
            LET o == outcome[r][1]
            IN  /\ HasBotPhrase(o.stderr) => category[r] = "bot-detection"
                /\ (~HasBotPhrase(o.stderr) /\ HasUnsupportedPhrase(o.stderr)) =>
                       category[r] = "unsupported-content"
                /\ (o.stderr = "" /\ HasBotPhrase(o.stdout)) => category[r] = "bot-detection"
                /\ (o.stderr = "" /\ ~HasBotPhrase(o.stdout) /\ HasUnsupportedPhrase(o.stdout)) =>
                       category[r] = "unsupported-content"
                /\ (o.stderr # "" /\ ~HasBotPhrase(o.stderr) /\ ~HasUnsupportedPhrase(o.stderr)) =>
                       category[r] = "other"

\* the phrase is in stdout, stderr holds a warning only
C5_Witness ==
    \E r \in Requests :
        /\ LastFailed(r) /\ NonZeroExit(outcome[r][1])
        /\ HasBotPhrase(outcome[r][1].stdout)
        /\ outcome[r][1].stderr # ""
        /\ category[r] = "other"

\* C6: an attempt that exits 0 with a stdout that does not decode never
\* makes the request succeed; it records a parse-error diagnostic as
\* last_error and moves on to the next strategy, or exhausts the request.
C6_ParseError ==
    [][\A r \in Requests :
        (Completes(r) /\ ZeroExit(Finished(r)) /\ ~JsonLoads(Finished(r).stdout).ok) =>
            /\ category'[r] = "parse-error"
            /\ last_error'[r] =
                  Some("Failed to parse yt-dlp output: "
                         \o JsonErrorStr(Finished(r).stdout, JsonLoads(Finished(r).stdout)))
            /\ pc'[r] # "succeeded"
            /\ response'[r] \in {None, Some(FailureResponse(last_error'[r]))}
            /\ MovedOn(r)
      ]_vars

\* the first client printed two documents, the handler is at the second client
C6_Witness ==
    \E r \in Requests :
        /\ Trying(r, 1)
        /\ ZeroExit(outcome[r][1])
        /\ category[r] = "parse-error"
        /\ last_error[r] = Some("Failed to parse yt-dlp output: Extra data: line 2 column 1 (char 14)")

\* C7: a subprocess that overruns the 60 seconds leaves the timeout
\* diagnostic as last_error and the request moves on to the next strategy
\* (or is exhausted after the last); no request stays inside subprocess.run
\* for ever, so none stays in Trying(i) for ever, whatever i.
C7_TimeoutAdvances ==
    /\ [][\A r \in Requests :
            (Completes(r) /\ Overran(Finished(r))) =>
                /\ category'[r] = "timeout"
                /\ last_error'[r] = Some("Video extraction timed out")
                /\ MovedOn(r)
         ]_vars
    /\ \A r \in Requests : []<>(pc[r] # "running")

\* the third client overran, the handler is at the fourth
C7_Witness ==
    \E r \in Requests :
        /\ Trying(r, 3)
        /\ Overran(outcome[r][1])
        /\ last_error[r] = Some("Video extraction timed out")

\* C8: every attempt that does not succeed produces one diagnostic, which
\* replaces last_error, and takes Trying(i) to Trying(i+1), or to Exhausted
\* when i is the last index; a request is exhausted by nothing but the
\* failure of the last attempt.
C8_NoFailureIsFatal ==
    [][\A r \in Requests :
        /\ (Completes(r) /\ pc'[r] # "succeeded") =>
              /\ diagnostics'[r] = diagnostics[r] + 1
              /\ last_error'[r] = Some(Verdict(r).last_error)
              /\ category'[r] = Verdict(r).category
              /\ MovedOn(r)
        /\ (pc[r] # "exhausted" /\ pc'[r] = "exhausted") =>
              /\ Trying(r, NumConfigs - 1)
              /\ invocations[r] = NumConfigs
      ]_vars

\* one attempt of each kind has failed, the last by a spawn failure
C8_Witness ==
    \E r \in Requests :
        /\ Trying(r, 3)
        /\ outcome[r][1].kind = "error"
        /\ diagnostics[r] = 3
        /\ last_error[r] = Some("[Errno 12] Cannot allocate memory")

\* C9: when all strategies failed and the last failure is bot-detection,
\* the message of the failure response contains the guidance on the cookies
\* file, and 5 invocations were made.
C9_BotDetectionRemediation ==
    \A r \in Requests :
        (/\ Exhausted(r)
         /\ \/ category[r] = "bot-detection"
            \/ NonZeroExit(outcome[r][1]) /\ HasBotPhrase(outcome[r][1].stderr)) =>
            /\ Contains(response[r][1].detail, "COOKIES ARE REQUIRED")
            /\ Contains(response[r][1].detail,
                        "Set YTDLP_COOKIES_FILE environment variable to the file path")
            /\ invocations[r] = 5

\* the last client was asked to sign in
C9_Witness ==
    \E r \in Requests :
        /\ Exhausted(r)
        /\ NonZeroExit(outcome[r][1])
        /\ Contains(outcome[r][1].stderr, "Sign in to confirm")
        /\ Contains(response[r][1].detail, "COOKIES ARE REQUIRED")

\* C10 (as claimed): the message of every failure response contains the
\* text of the last diagnostic.
C10_CarriesLastDiagnostic ==
    \A r \in Requests :
        Exhausted(r) => Contains(response[r][1].detail, last_error[r][1])

\* C10 (amended): the message contains the text of the last diagnostic
\* unless that text contains "bot" in any letter case or "Sign in"; then
\* the message is the fixed guidance and nothing else.
C10_CarriesOrReplaces ==
    \A r \in Requests :
        Exhausted(r) =>
            IF Contains(Lower(last_error[r][1]), "bot") \/ Contains(last_error[r][1], "Sign in")
            THEN response[r][1].detail = "yt-dlp extraction failed: " \o RemediationMessage
            ELSE /\ Contains(response[r][1].detail, last_error[r][1])
                 /\ ~Contains(response[r][1].detail, "COOKIES ARE REQUIRED")

\* the last diagnostic names the client that was blocked; the message does not
C10_Witness ==
    \E r \in Requests :
        /\ Exhausted(r)
        /\ last_error[r] = Some("YouTube bot detection (tried mweb)")
        /\ ~Contains(response[r][1].detail, "tried mweb")

\* args holds the credential flag
HasCredentialFlag(a) == \E i \in 1..Len(a) : a[i] = "--cookies"

\* args holds the credential flag followed by path, once
HasCredentialPath(a, path) ==
    /\ \E i \in 1..(Len(a) - 1) : a[i] = "--cookies" /\ a[i + 1] = path
    /\ Cardinality({ i \in 1..Len(a) : a[i] = "--cookies" }) = 1

\* the step in which the handler of r starts and makes its decision on cookies
Starts(r) == pc[r] = "idle" /\ pc'[r] # "idle"

\* a step in which an invocation of r is built
Builds(r) == args'[r] # args[r]

\* C11: credential presence.  The decision taken when the request starts is
\* to use the bundle exactly when the path is set (not empty) and the file
\* exists at that moment; building never fails (the request is then inside
\* subprocess.run); every invocation built for the request holds the flag
\* followed by the path when the decision was yes, and no flag otherwise.
C11_CredentialPresence ==
    [][\A r \in Requests :
        /\ Starts(r) =>
              /\ pc'[r] = "running" /\ response'[r] = None /\ Builds(r)
              /\ cookies_file'[r] = env_cookies
              /\ use_cookies'[r] <=>
                    (env_cookies # None /\ env_cookies # Some("") /\ cookies_exist)
        /\ Builds(r) =>
              /\ pc'[r] = "running"
              /\ IF use_cookies'[r]
                 THEN HasCredentialPath(args'[r], cookies_file'[r][1])
                 ELSE ~HasCredentialFlag(args'[r])
      ]_vars

\* the path is set, the file was missing, the second client is being tried
C11_Witness ==
    \E r \in Requests :
        /\ Trying(r, 1)
        /\ cookies_file[r] = Some(CookiesPath)
        /\ ~use_cookies[r]
        /\ ~HasCredentialFlag(args[r])

\* C12: the probe never fails.  Whatever the version subprocess does, the
\* probe answers with status "ok"; ytdlp_available is true exactly when the
\* subprocess ended by itself with exit status 0, and when it is false the
\* version string is "Not available"; the step changes nothing of any
\* extraction request, and its answer is the same whatever state the
\* requests are in.
C12_ProbeNeverFails ==
    /\ [][(probe' # probe \/ health' # health) =>
            /\ probe' # None /\ health' # None
            /\ health'[1].status = "ok"
            /\ health'[1].ytdlp_available <=>
                  (/\ probe'[1].kind = "process"
                   /\ probe'[1].seconds <= 5
                   /\ probe'[1].returncode = 0)
            /\ ~health'[1].ytdlp_available => health'[1].ytdlp_version = "Not available"
            /\ UNCHANGED requestVars
         ]_vars
    /\ [](probe # None =>
            /\ health # None
            /\ health[1].status = "ok"
            /\ health[1].ytdlp_available \in BOOLEAN)

\* the version subprocess overran 5 seconds while an extraction was running
C12_Witness ==
    /\ probe # None /\ probe[1].kind = "process" /\ probe[1].seconds > 5
    /\ probe[1].returncode = 0
    /\ health[1].status = "ok"
    /\ ~health[1].ytdlp_available
    /\ \E r \in Requests : Trying(r, 2)

\* the last attempt of r did not fail with one of the bot-detection phrases,
\* in whatever letter case, in its output
NoBotPhraseInOutput(r) ==
    LET o == outcome[r][1]
    IN  ~(NonZeroExit(o) /\ (HasBotPhraseAnyCase(o.stderr) \/ HasBotPhraseAnyCase(o.stdout)))

\* C13 (as claimed): the guidance is surfaced for a bot-detection failure
\* only.  When the request is exhausted and its last diagnostic is of
\* category parse-error, unsupported-content, timeout or other, from an
\* attempt whose output held neither bot-detection phrase, the message is
\* the text of that diagnostic, whatever other words the text holds.
C13_RemediationOnlyForBot ==
    \A r \in Requests :
        (/\ Exhausted(r)
         /\ category[r] \in {"parse-error", "unsupported-content", "timeout", "other"}
         /\ NoBotPhraseInOutput(r)) =>
            /\ response[r][1].detail =
                  "yt-dlp extraction failed: " \o DefaultDetail(last_error[r])
            /\ ~Contains(response[r][1].detail, "COOKIES ARE REQUIRED")

\* the attempts of r that have come back and been classified
Done(r) == diagnostics[r] + (IF pc[r] = "succeeded" THEN 1 ELSE 0)

\* the subprocesses of r that were started and have not come back
Live(r) == invocations[r] - Done(r)

\* C14: strictly sequential.  A request has at most one subprocess that has
\* not come back, and has one exactly while it is inside subprocess.run; a
\* subprocess is started only when the request starts or in the step in
\* which the one before it has come back and been classified as a failure.
C14_Sequential ==
    /\ [](\A r \in Requests :
            /\ Live(r) \in {0, 1}
            /\ Live(r) = 1 <=> pc[r] = "running")
    /\ [][\A r \in Requests :
            invocations'[r] # invocations[r] =>
                /\ invocations'[r] = invocations[r] + 1
                /\ \/ Starts(r) /\ invocations[r] = 0
                   \/ /\ Completes(r)
                      /\ outcome'[r] # None
                      /\ ~Verdict(r).returned
                      /\ category'[r] = Verdict(r).category
                      /\ diagnostics'[r] = invocations[r]
         ]_vars

\* three attempts have failed, the fourth is running
C14_Witness ==
    \E r \in Requests :
        /\ Trying(r, 3)
        /\ invocations[r] = 4
        /\ diagnostics[r] = 3
        /\ Live(r) = 1

\* args holds x
HasArg(a, x) == \E i \in 1..Len(a) : a[i] = x

\* the elements of args that begin with prefix
ArgsWithPrefix(a, prefix) == { i \in 1..Len(a) : Take(a[i], Len(prefix)) = prefix }

\* args names this client, and the skip hint exactly when skip
NamesStrategy(a, client, skip) ==
    /\ Cardinality(ArgsWithPrefix(a, "youtube:player_client=")) = 1
    /\ HasArg(a, "youtube:player_client=" \o client)
    /\ Cardinality(ArgsWithPrefix(a, "youtube:player_skip=")) = (IF skip THEN 1 ELSE 0)
    /\ skip => HasArg(a, "youtube:player_skip=webpage")

\* C15: the catalog is fixed and tried from the top.  The attempt at index
\* 0, 1, 2, 3, 4 is made for (web, skip webpage), (web), (ios), (android),
\* (mweb) in this order; a request starts at index 0, its index only ever
\* grows by one, the k-th subprocess it starts is the one for index k-1, and
\* a request that has started never starts again.
C15_CatalogOrder ==
    /\ [](\A r \in Requests :
            /\ Trying(r, 0) => NamesStrategy(args[r], "web", TRUE)
            /\ Trying(r, 1) => NamesStrategy(args[r], "web", FALSE)
            /\ Trying(r, 2) => NamesStrategy(args[r], "ios", FALSE)
            /\ Trying(r, 3) => NamesStrategy(args[r], "android", FALSE)
            /\ Trying(r, 4) => NamesStrategy(args[r], "mweb", FALSE)
            /\ pc[r] = "running" => idx[r] \in 0..4 /\ invocations[r] = idx[r] + 1)
    /\ [][\A r \in Requests :
            /\ Starts(r) => idx'[r] = 0 /\ invocations'[r] = 1
            /\ idx'[r] # idx[r] => idx'[r] = idx[r] + 1
            /\ pc[r] # "idle" => pc'[r] # "idle"
         ]_vars

\* four clients have failed, the handler is trying mweb
C15_Witness ==
    \E r \in Requests :
        /\ Trying(r, 4)
        /\ diagnostics[r] = 4
        /\ HasArg(args[r], "youtube:player_client=mweb")

\* C16: the existence of the bundle is checked once per request.  After
\* the request has started its decision and its path never change, and
\* every invocation built after the first holds the credential flag
\* exactly when the one before it did, whether or not the file has been
\* created or deleted in between.
C16_CheckedOnce ==
    [][\A r \in Requests :
        /\ ~Starts(r) =>
              /\ use_cookies'[r] = use_cookies[r]
              /\ cookies_file'[r] = cookies_file[r]
        /\ (Builds(r) /\ ~Starts(r)) =>
              /\ HasCredentialFlag(args'[r]) <=> HasCredentialFlag(args[r])
              /\ HasCredentialFlag(args'[r]) <=> use_cookies[r]
      ]_vars

\* the file was there when the request started and is gone at the third attempt
C16_Witness ==
    \E r \in Requests :
        /\ Trying(r, 2)
        /\ use_cookies[r]
        /\ ~cookies_exist
        /\ HasCredentialPath(args[r], CookiesPath)

Terminal(r) == Succeeded(r) \/ Exhausted(r)

\* C17: every call terminates.  If every subprocess.run comes back, a
\* request that is trying the first client eventually is succeeded or
\* exhausted; it has then made at most 5 invocations and holds the one
\* response that goes with its terminal state (200 or 500), a request that
\* is not terminal holds none, and a terminal request never changes again.
C17_Terminates ==
    /\ \A r \in Requests : Trying(r, 0) ~> Terminal(r)
    /\ [](\A r \in Requests :
            /\ invocations[r] <= 5
            /\ Succeeded(r) => response[r] # None /\ response[r][1].status = 200
            /\ Exhausted(r) => response[r] # None /\ response[r][1].status = 500
            /\ ~Terminal(r) => response[r] = None)
    /\ [][\A r \in Requests :
            Terminal(r) =>
                /\ pc'[r] = pc[r]
                /\ response'[r] = response[r]
                /\ invocations'[r] = invocations[r]
                /\ idx'[r] = idx[r]
                /\ last_error'[r] = last_error[r]
         ]_vars

\* the request was exhausted by five failures, the last one a parse error
C17_Witness ==
    \E r \in Requests :
        /\ Exhausted(r)
        /\ invocations[r] = 5
        /\ diagnostics[r] = 5
        /\ category[r] = "parse-error"
        /\ response[r][1].status = 500

\* what the handler of r holds: the position and the locals that its result
\* is made from
Local(r) ==
    [pc |-> pc[r], idx |-> idx[r], last_error |-> last_error[r], category |-> category[r],
     response |-> response[r]]

\* the for loop as a function: what a handler holds after the first n
\* subprocesses of the sequence sc have come back
RECURSIVE Replay(_, _)
Replay(sc, n) ==
    IF n = 0
    THEN [pc |-> "running", idx |-> 0, last_error |-> None, category |-> "none",
          response |-> None]
    ELSE LET s == Replay(sc, n - 1)
             v == Verdicts[sc[n]][config_name(player_configs[n])]
         IN  IF s.pc # "running" THEN s
             ELSE IF v.returned
             THEN [s EXCEPT !.pc = "succeeded", !.response = Some(SuccessResponse(v.data))]
             ELSE [pc |-> IF n = NumConfigs THEN "exhausted" ELSE "running",
                   idx |-> n,
                   last_error |-> Some(v.last_error),
                   category |-> v.category,
                   response |-> IF n = NumConfigs
                                THEN Some(FailureResponse(Some(v.last_error)))
                                ELSE None]

\* C18: request isolation.  With two requests in progress at once, under
\* every interleaving of their attempts, of changes of the cookies file and
\* of health probes, what a request holds (index, last_error, category,
\* response) is the function of the outcomes of its own attempts so far
\* that the loop computes, and a step of one request changes nothing that
\* the other request holds.
C18_Isolation ==
    /\ [](\A r \in Requests :
            (pc[r] # "idle" /\ script[r] # None) =>
                Local(r) = Replay(script[r][1], Done(r)))
    /\ [][\A r \in Requests : \A q \in Requests \ {r} :
            (Starts(r) \/ Completes(r)) =>
                /\ Local(q)' = Local(q)
                /\ args'[q] = args[q] /\ outcome'[q] = outcome[q]
                /\ invocations'[q] = invocations[q] /\ diagnostics'[q] = diagnostics[q]
                /\ video_url'[q] = video_url[q] /\ use_cookies'[q] = use_cookies[q]
         ]_vars

\* one request was blocked at every client while the other got its video
\* from the last one
C18_Witness ==
    /\ script[1] = Some(ScriptBlocked) /\ script[2] = Some(ScriptShorts)
    /\ Exhausted(1) /\ Succeeded(2)
    /\ last_error[1] = Some("YouTube bot detection (tried mweb)")
    /\ category[2] = "unsupported-content"
    /\ response[1][1].status = 500 /\ response[2][1].status = 200

\* the number of elements of args that the strategy decides: the client
\* hint, and the skip hint when there is one, each after "--extractor-args"
StrategyLen(a) ==
    IF Len(a) >= 12 /\ Take(a[12], Len("youtube:player_skip=")) = "youtube:player_skip="
    THEN 4 ELSE 2

\* args without the elements that the strategy decides
WithoutStrategy(a) == SubSeq(a, 1, 8) \o SubSeq(a, 9 + StrategyLen(a), Len(a))

\* C19: the invocation differs between strategies in the client hint and
\* the skip hint only.  For every attempt of a request, args without these
\* hints is the same list: the interpreter and module, --dump-json,
\* --no-warnings, --no-playlist, the fixed user agent, the three
\* compatibility hints, the referer header, the credential flag and path
\* if the request decided to use them, and the URL of the request last.
C19_FrameOfStrategy ==
    \A r \in Requests :
        pc[r] = "running" =>
            /\ Len(args[r]) >= 10
            /\ args[r][9] = "--extractor-args"
            /\ ArgsWithPrefix(args[r], "youtube:player_client=") = {10}
            /\ ArgsWithPrefix(args[r], "youtube:player_skip=") \subseteq {12}
            /\ WithoutStrategy(args[r]) =
                  << sys_executable, "-m", "yt_dlp", "--dump-json", "--no-warnings",
                     "--no-playlist", "--user-agent",
                     "Mozilla/5.0 (Windows NT 10.0; Win64; x64) AppleWebKit/537.36 (KHTML, like Gecko) Chrome/120.0.0.0 Safari/537.36",
                     "--extractor-args", "youtube:player_params=8AEB",
                     "--extractor-args", "youtube:include_live_chat=false",
                     "--extractor-args", "youtube:skip=dash,translated_subs",
                     "--add-header", "Referer:https://www.youtube.com/" >>
                  \o (IF use_cookies[r] THEN << "--cookies", cookies_file[r][1] >> ELSE <<>>)
                  \o << video_url[r] >>
            /\ args[r][Len(args[r])] = video_url[r]

\* the ios client is tried for a Shorts URL with the cookies file
C19_Witness ==
    \E r \in Requests :
        /\ Trying(r, 2)
        /\ HasArg(args[r], "youtube:player_client=ios")
        /\ use_cookies[r]
        /\ video_url[r] = "https://www.youtube.com/shorts/abc"
        /\ args[r][Len(args[r])] = "https://www.youtube.com/shorts/abc"

\* the two requests were given the same URL, took the same decision on the
\* same cookies path, and their subprocesses behave the same
SameInputs(r, q) ==
    /\ pc[r] # "idle" /\ pc[q] # "idle"
    /\ video_url[r] = video_url[q]
    /\ cookies_file[r] = cookies_file[q]
    /\ use_cookies[r] = use_cookies[q]
    /\ script[r] # None /\ script[r] = script[q]

\* C20: determinism.  Two runs of the handler with the same URL, the same
\* credential state and the same sequence of attempt outcomes, interleaved
\* in any way with each other, with changes of the cookies file and with
\* health probes, hold the same position, last_error, category, invocation
\* and response whenever the same number of their attempts have come
\* back, and neither goes on after the attempt at which the other one ended.
C20_Deterministic ==
    \A r \in Requests : \A q \in Requests \ {r} :
        SameInputs(r, q) =>
            /\ Done(r) = Done(q) =>
                  /\ Local(r) = Local(q)
                  /\ args[r] = args[q]
                  /\ outcome[r] = outcome[q]
                  /\ invocations[r] = invocations[q]
            /\ Terminal(r) => Done(q) <= Done(r)

\* the same five failures exhausted both runs, one with the cookies file
\* deleted in between, and they answer the same
C20_Witness ==
    /\ SameInputs(1, 2)
    /\ script[1] = Some(ScriptRobots)
    /\ Exhausted(1) /\ Exhausted(2)
    /\ response[1] = response[2]
    /\ category[1] = "other" /\ category[2] = "other"
    /\ use_cookies[1] /\ ~cookies_exist

====
